---- MODULE Spec2Model ----
(***************************************************************************)
(* PowerMonitor (PowerMeter.py): the sampling cycle, the mode controller   *)
(* (simulation_mode / device_connected / n1914a) and the rolling window    *)
(* self.data.                                                              *)
(*                                                                         *)
(* The Tk main thread runs one callback at a time: update_data (the timer  *)
(* callback), toggle_simulation_mode, apply_config and cleanup_and_exit    *)
(* never interleave with each other.  update_data is split at the          *)
(* statements that change shared fields, because the Flask thread reads    *)
(* those fields between them; pc is the main thread's position.            *)
(*                                                                         *)
(* The Flask server thread handles one request at a time here; a handler   *)
(* is split at its reads of self.data (api_pc is its position), and        *)
(* takes its steps between any two steps of the main thread.               *)
(*                                                                         *)
(* Spec is the acquisition side, SpecApi adds every request to it,         *)
(* SpecServer is the server's life cycle, SpecMetric the two vswr          *)
(* computations over a range of readings.                                  *)
(***************************************************************************)
EXTENDS Integers, Sequences, FiniteSets, TLC

\* ------------------------------------------------------------ bounds
\* Sampling cycles explored.
MaxCycles == 3
\* Resources a bus listing may return.
MaxResources == 2
\* Largest power magnitude of the readings SpecMetric starts from.
MaxPower == 3

\* ------------------------------------------------------------ constants
\* cutoff_time = timestamp - 60.0
Horizon == 60

\* Seconds the clock may advance between two reads of time.time().
Steps == {0, 30, 40, 70}

\* (forward, reflected) pairs returned by generate_power_reading (both are
\* non-negative; the baseline pair stands for the distribution).
SynthPairs == {<<800, 50>>}
\* (forward, reflected) pairs an instrument may answer.
RealPairs == {<<100, 25>>}

\* DEFAULT_CONFIG["api_server"]["port"]
DefaultPort == 5000
\* if not (1024 <= api_port <= 65535)
PortMin == 1024
PortMax == 65535
\* Ports the configuration file or the dialog may name.
Ports == {80, DefaultPort}
\* The limit argument of a history request.
Limits == {-1, 0, 2}
\* int(DEFAULT_CONFIG["display"]["update_frequency_Hz"] * 1000)
DefaultIntervalMs == 1000
\* if 100 <= new_freq <= 10000
IntervalMin == 100
IntervalMax == 10000
\* display.update_frequency_Hz values a configuration file may hold, in
\* thousandths: the default 1.0 and 0.05.
ConfigIntervals == {50, DefaultIntervalMs}
\* What the interval entry may hold when its button is pressed: an integer,
\* or text that int() rejects.
IntervalInputs ==
    {[int |-> TRUE, value |-> v] :
        v \in {IntervalMin - 1, IntervalMin, IntervalMax, IntervalMax + 1}}
    \cup {[int |-> FALSE, value |-> 0]}
\* display.time_window_s values a configuration file may hold.
ConfigWindows == {30, Horizon}

\* A pyvisa resource object as the controller sees it: ref is "not None",
\* open is the session state, marker is whether *IDN? of that instrument
\* contains "N1914A".
NoHandle == [ref |-> FALSE, open |-> FALSE, marker |-> FALSE]
NewHandle(m) == [ref |-> TRUE, open |-> TRUE, marker |-> m]
\* instrument.close(): closing a closed session is harmless.
Close(h) == IF h.ref THEN [h EXCEPT !.open = FALSE] ELSE h

\* What one open_resource + query("*IDN?") attempt can do.
ProbeOutcomes == {"open_fail", "query_fail", "other", "n1914a"}
\* rm.list_resources(): a tuple of resources (here: what probing each does),
\* or an exception.
ListError == <<"list_error">>
Listings == UNION {[1..n -> ProbeOutcomes] : n \in 0..MaxResources} \cup {ListError}
\* What the bus does during one connect_to_device call: with no saved
\* connection string the listing that is probed, else the one probe of the
\* saved resource.
BusInputs(cs) == IF cs = "" THEN Listings ELSE {<<p>> : p \in ProbeOutcomes}

NoPower == [f |-> 0, r |-> 0, src |-> "none"]
NoOp == [name |-> "init", result |-> "ok", was_sim |-> FALSE]
\* No server thread has tried to bind yet.
NoBind == [port |-> 0, result |-> "none"]
\* What the Flask thread is sending to the client: nothing, or a response
\* (arg is the request's limit argument).
NoResponse == [route |-> "none", status |-> 0, arg |-> 0, body |-> <<>>]
Resp(route, status, arg, body) ==
    [route |-> route, status |-> status, arg |-> arg, body |-> body]

VARIABLES
    data,               \* self.data: <<[t, f, r, src]>>, src is a ghost tag
    device_connected,   \* self.device_connected
    simulation_mode,    \* self.simulation_mode
    n1914a,             \* self.n1914a
    rm,                 \* self.rm: "none" | "open" | "closed"
    monitoring,         \* self.monitoring
    connection_string,  \* self.config["device"]["connection_string"]
    pc,                 \* position of the main thread inside update_data
    armed,              \* a root.after callback for update_data is pending
    clock,              \* time.time()
    timestamp,          \* update_data's local timestamp
    power,              \* update_data's local power
    exited,             \* root.quit() was called
    cycles,             \* ghost: completed sampling cycles
    queries,            \* ghost: channel queries issued by the last cycle
    flipped,            \* ghost: the last cycle took the "power is None" branch
    appended,           \* ghost: readings appended by the last cycle
    last_op,            \* ghost: the last main-thread handler that ran
    response,           \* the response the Flask thread is sending
    acquisition_frequency_ms,   \* self.acquisition_frequency_ms
    update_frequency_Hz,        \* self.config["display"]["update_frequency_Hz"], in thousandths
    time_window_s,              \* self.config["display"]["time_window_s"]
    api_running,        \* self.api_running
    api_port,           \* self.config["api_server"]["port"]
    serving,            \* ports on which a server thread of this process listens
    bind,               \* ghost: the last bind a server thread attempted
    api_pc,             \* position of the Flask thread inside a handler
    limit,              \* get_power_history's local limit
    limit_arg           \* ghost: the limit argument of that request

vars == <<data, device_connected, simulation_mode, n1914a, rm, monitoring,
          connection_string, pc, armed, clock, timestamp, power, exited,
          cycles, queries, flipped, appended, last_op, response,
          acquisition_frequency_ms, update_frequency_Hz, time_window_s,
          api_running, api_port, serving, bind, api_pc, limit, limit_arg>>

mode_vars == <<device_connected, simulation_mode, n1914a, connection_string>>
server_vars == <<api_running, api_port, serving, bind>>
api_vars == <<api_pc, limit, limit_arg>>
\* No response is on its way to the client.
Quiet == response = NoResponse
\* A step of the main thread leaves the Flask thread's locals alone.
display_vars == <<acquisition_frequency_ms, update_frequency_Hz, time_window_s>>
main_frame == UNCHANGED <<response, api_vars, display_vars>>

Reading(ts, p) == [t |-> ts, f |-> p.f, r |-> p.r, src |-> p.src]
Last(s) == s[Len(s)]

\* ------------------------------------------------------------ window
\* self.data.append((timestamp, power[0], power[1]))
PrependReading(d, rd) == <<rd>> \o d
AppendReading(d, rd) == Append(d, rd)

\* self.data.clear()
data_clear_skipped(d) == d
data_clear(d) == <<>>

\* self.data = [(t, f, r) for t, f, r in self.data if t >= cutoff_time]
KeepAll(rd, ts) == TRUE
KeepInverted(rd, ts) == rd.t < ts - Horizon
Keep(rd, ts) == rd.t >= ts - Horizon
Prune(d, ts) == SelectSeq(d, LAMBDA rd : Keep(rd, ts))

\* ------------------------------------------------------------ connect
\* connect_to_device as a function of the fields it reads and of what the
\* bus does: the fields it leaves and its return value (ok).
ConnectFail(cs, n, dc) ==
    [ok |-> FALSE, n1914a |-> n, device_connected |-> dc, connection_string |-> cs]

connect_to_device(cs, r, n, dc, bus) ==
    IF cs = ""
    THEN IF r # "open" \/ bus = ListError \/ bus = <<>>
         THEN ConnectFail(cs, n, dc)
         ELSE IF \E i \in 1..Len(bus) : bus[i] = "n1914a"
              THEN [ok |-> TRUE, n1914a |-> NewHandle(TRUE),
                    device_connected |-> TRUE, connection_string |-> "res"]
              ELSE ConnectFail(cs, n, dc)
    ELSE IF r # "open" \/ bus[1] = "open_fail"
         THEN ConnectFail(cs, n, dc)
         ELSE IF bus[1] = "query_fail"
              THEN ConnectFail(cs, NewHandle(FALSE), dc)
              ELSE IF bus[1] = "n1914a"
                   THEN [ok |-> TRUE, n1914a |-> NewHandle(TRUE),
                         device_connected |-> TRUE, connection_string |-> cs]
                   ELSE ConnectFail(cs, NoHandle, dc)

\* ------------------------------------------------------------ server
\* start_api_server as a function of the fields it reads and of whether the
\* operating system refuses the bind (port taken by another process, or not
\* permitted): the fields it leaves.  The bind is done by the new thread,
\* inside Flask.run; it fails on a port one of this process's own server
\* threads still listens on (EADDRINUSE), and a thread whose bind failed
\* ends.
\* if self.api_running: return
StartGuardMissing(running) == FALSE
StartGuard(running) == running
\* self.api_thread.start(); self.api_running = True
start_api_server_on(running, port, srv, bnd, refused) ==
    IF StartGuard(running)
    THEN [api_running |-> running, serving |-> srv, bind |-> bnd]
    ELSE LET bound == port \notin srv /\ ~refused IN
         [api_running |-> TRUE,
          serving |-> IF bound THEN srv \cup {port} ELSE srv,
          bind |-> [port |-> port, result |-> IF bound THEN "ok" ELSE "fail"]]

\* stop_api_server: marks the server as stopped; the thread is left alone.
stop_api_server_on(running, srv, bnd) ==
    [api_running |-> FALSE, serving |-> srv, bind |-> bnd]

\* ------------------------------------------------------------ Init
\* PowerMonitor.__init__: the first update_data call is pending, and the
\* server was started if the loaded configuration enables it.  libs is
\* whether pyvisa.ResourceManager() may fail; enableds and ports are what
\* the configuration file may hold for the server, refusals whether the
\* operating system may refuse the bind, intervals and windows what the
\* file may hold as display.update_frequency_Hz and display.time_window_s.
InitOn(libs, enableds, ports, refusals, intervals, windows) ==
    \E r0 \in libs, cs0 \in {"", "res"} : \E bus \in BusInputs(cs0) :
    \E enabled \in enableds, p0 \in ports, refused \in refusals :
    \E hz \in intervals, w \in windows :
        LET c == connect_to_device(cs0, r0, NoHandle, FALSE, bus)
            s == IF enabled
                 THEN start_api_server_on(FALSE, p0, {}, NoBind, refused)
                 ELSE [api_running |-> FALSE, serving |-> {}, bind |-> NoBind]
        IN
        /\ api_running = s.api_running
        /\ serving = s.serving
        /\ bind = s.bind
        /\ api_port = p0
        /\ update_frequency_Hz = hz
        /\ time_window_s = w
        \* int(self.config["display"]["update_frequency_Hz"] * 1000)
        /\ acquisition_frequency_ms = hz
        /\ api_pc = "idle"
        /\ limit = 0
        /\ limit_arg = 0
        /\ rm = r0
        /\ n1914a = c.n1914a
        /\ connection_string = c.connection_string
        /\ device_connected = c.ok
        /\ simulation_mode = ~c.ok
        /\ data = <<>>
        /\ monitoring = TRUE
        /\ pc = "idle"
        /\ armed = TRUE
        /\ clock = 0
        /\ timestamp = 0
        /\ power = NoPower
        /\ exited = FALSE
        /\ cycles = 0
        /\ queries = 0
        /\ flipped = FALSE
        /\ appended = 0
        /\ last_op = NoOp
        /\ response = NoResponse

\* The server enabled on the default port, which is free.
Init == InitOn({"none", "open"}, {TRUE}, {DefaultPort}, {FALSE},
              {DefaultIntervalMs}, {Horizon})
\* The same with the instrument library present.
InitApi == InitOn({"open"}, {TRUE}, {DefaultPort}, {FALSE},
                 {DefaultIntervalMs}, {Horizon})
\* Any server configuration, the port free or not, and any interval.
InitServer == InitOn({"none", "open"}, BOOLEAN, Ports, BOOLEAN,
                    ConfigIntervals, {Horizon})
\* The defaults but for the time window.
InitWindow == InitOn({"open"}, {TRUE}, {DefaultPort}, {FALSE},
                    {DefaultIntervalMs}, ConfigWindows)

\* ------------------------------------------------------------ update_data
Synth(p) == [f |-> p[1], r |-> p[2], src |-> "synthetic"]
Real(p) == [f |-> p[1], r |-> p[2], src |-> "real"]

\* read_n1914a_power: what the two channel queries do.
ReadOutcomes == {"ok", "fail1", "fail2"}

\* if self.simulation_mode: power = self.generate_power_reading()
SimulatedReadRetrying(sp) ==
    /\ power' = IF n1914a.ref THEN NoPower ELSE Synth(sp)
    /\ queries' = IF n1914a.ref THEN 1 ELSE 0
    /\ pc' = IF n1914a.ref THEN "flip" ELSE "append"
    /\ UNCHANGED device_connected
SimulatedRead(sp) ==
    /\ power' = Synth(sp)
    /\ queries' = 0
    /\ pc' = "append"
    /\ UNCHANGED device_connected

\* update_data, from the monitoring test to the end of read_n1914a_power.
update_data_begin ==
    /\ Quiet
    /\ pc = "idle" /\ armed /\ ~exited
    /\ cycles < MaxCycles
    /\ IF ~monitoring
       THEN /\ armed' = FALSE
            /\ UNCHANGED <<data, mode_vars, rm, monitoring, pc, clock, timestamp, power,
                           exited, cycles, queries, flipped, appended, last_op>>
            /\ main_frame
            /\ UNCHANGED server_vars
       ELSE \E d \in Steps, sp \in SynthPairs, rp \in RealPairs, out \in ReadOutcomes :
            /\ armed' = FALSE
            /\ clock' = clock + d
            /\ timestamp' = clock + d
            /\ flipped' = FALSE
            /\ appended' = 0
            /\ last_op' = [name |-> "update_data", result |-> "ok",
                           was_sim |-> simulation_mode]
            /\ IF simulation_mode
               THEN SimulatedRead(sp)
               ELSE IF ~n1914a.ref \/ ~device_connected
                    THEN /\ power' = NoPower
                         /\ queries' = 0
                         /\ pc' = "flip"
                         /\ UNCHANGED device_connected
                    ELSE IF n1914a.open /\ out = "ok"
                         THEN /\ power' = Real(rp)
                              /\ queries' = 2
                              /\ pc' = "append"
                              /\ UNCHANGED device_connected
                         ELSE /\ power' = NoPower
                              /\ queries' = IF n1914a.open /\ out = "fail2" THEN 2 ELSE 1
                              /\ device_connected' = FALSE
                              /\ pc' = "flip"
            /\ UNCHANGED <<data, simulation_mode, n1914a, connection_string, rm,
                           monitoring, exited, cycles>>
            /\ main_frame
            /\ UNCHANGED server_vars

\* if power is None: simulation_mode = True; power = generate_power_reading()
ModeAfterFailedReadUnchanged == simulation_mode
ModeAfterFailedRead == TRUE

update_data_flip ==
    /\ Quiet
    /\ pc = "flip"
    /\ \E sp \in SynthPairs :
        /\ simulation_mode' = ModeAfterFailedRead
        /\ power' = Synth(sp)
        /\ flipped' = TRUE
        /\ pc' = "append"
    /\ UNCHANGED <<data, device_connected, n1914a, connection_string, rm, monitoring,
                   armed, clock, timestamp, exited, cycles, queries, appended, last_op>>
    /\ main_frame
    /\ UNCHANGED server_vars

update_data_append ==
    /\ Quiet
    /\ pc = "append"
    /\ data' = AppendReading(data, Reading(timestamp, power))
    /\ appended' = appended + 1
    /\ pc' = "prune"
    /\ UNCHANGED <<mode_vars, rm, monitoring, armed, clock, timestamp, power, exited,
                   cycles, queries, flipped, last_op>>
    /\ main_frame
    /\ UNCHANGED server_vars

update_data_prune ==
    /\ Quiet
    /\ pc = "prune"
    /\ data' = Prune(data, timestamp)
    /\ pc' = "gui"
    /\ UNCHANGED <<mode_vars, rm, monitoring, armed, clock, timestamp, power, exited,
                   cycles, queries, flipped, appended, last_op>>
    /\ main_frame
    /\ UNCHANGED server_vars

\* update_gui(); root.after(acquisition_frequency_ms, update_data).  When
\* update_gui raises, Tk reports the exception of the callback and the
\* root.after line is not reached.
update_data_finish ==
    /\ Quiet
    /\ pc = "gui"
    /\ \E gui_raises \in BOOLEAN : armed' = ~gui_raises
    /\ cycles' = cycles + 1
    /\ pc' = "idle"
    /\ UNCHANGED <<data, mode_vars, rm, monitoring, clock, timestamp, power, exited,
                   queries, flipped, appended, last_op>>
    /\ main_frame
    /\ UNCHANGED server_vars

\* ------------------------------------------------------------ toggle
\* toggle_simulation_mode: the "Connect to Device" / "Disconnect Device"
\* button.
\* if self.connect_to_device(): self.simulation_mode = False
ModeAfterConnectIgnoringResult(ok, sim) == FALSE
ModeAfterConnect(ok, sim) == IF ok THEN FALSE ELSE sim

toggle_simulation_mode ==
    /\ Quiet
    /\ pc = "idle" /\ ~exited
    /\ IF simulation_mode
       THEN \E bus \in BusInputs(connection_string) :
            LET c == connect_to_device(connection_string, rm, n1914a,
                                       device_connected, bus) IN
            /\ n1914a' = c.n1914a
            /\ device_connected' = c.device_connected
            /\ connection_string' = c.connection_string
            /\ simulation_mode' = ModeAfterConnect(c.ok, simulation_mode)
            /\ data' = IF c.ok THEN data_clear(data) ELSE data
            /\ last_op' = [name |-> "toggle_simulation_mode",
                           result |-> IF c.ok THEN "ok" ELSE "fail", was_sim |-> TRUE]
       ELSE /\ simulation_mode' = TRUE
            /\ device_connected' = FALSE
            /\ n1914a' = NoHandle
            /\ data' = data_clear(data)
            /\ last_op' = [name |-> "toggle_simulation_mode", result |-> "ok",
                           was_sim |-> FALSE]
            /\ UNCHANGED connection_string
    /\ queries' = 0 /\ flipped' = FALSE /\ appended' = 0
    /\ UNCHANGED <<rm, monitoring, pc, armed, clock, timestamp, power, exited,
                   cycles>>
    /\ main_frame
    /\ UNCHANGED server_vars

\* ------------------------------------------------------------ apply_config
\* How far apply_config gets before it returns or raises into its except.
ConfigStages == {"invalid_selection", "list_error", "open_fail", "parse_fail",
                 "write_fail", "idn_fail", "api_parse_fail", "api_invalid", "ok"}
\* The stages at which self.n1914a already is the newly opened resource.
Opened == {"parse_fail", "write_fail", "idn_fail", "api_parse_fail", "api_invalid", "ok"}
\* The stages after self.config["device"]["connection_string"] = resource.
Saved == {"api_parse_fail", "api_invalid", "ok"}
\* How the handler ended: its last statement, a return after a message box,
\* or its except clause.
ConfigResult(stage) ==
    IF stage = "ok" THEN "ok"
    ELSE IF stage \in {"invalid_selection", "api_invalid"} THEN "rejected" ELSE "fail"

\* The API fields of the dialog: the check box, the port and the host.
Hosts == {"", "0.0.0.0"}
ApiInputs == [enabled : BOOLEAN, port : Ports, host : Hosts]
\* The dialog with its check box and port left as it showed them.
ApiInputsKept == {inp \in ApiInputs : inp.enabled = api_running /\ inp.port = api_port}
\* if api_enabled: if not (1024 <= api_port <= 65535) ... if not api_host ...
ApiRejected(inp) ==
    inp.enabled /\ (~(PortMin <= inp.port /\ inp.port <= PortMax) \/ inp.host = "")

\* configure_device.apply_config: the "Apply Configuration" button.  marker
\* is whether the chosen instrument's identity contains "N1914A", inputs
\* the API fields the user may have entered, refused whether the operating
\* system refuses the bind of a restarted server.
apply_config_on(inputs) ==
    /\ Quiet
    /\ pc = "idle" /\ ~exited
    /\ \E stage \in ConfigStages, inp \in inputs :
       \E marker \in IF stage \in Opened THEN BOOLEAN ELSE {FALSE} :
       \E refused \in IF stage = "ok" /\ inp.enabled THEN BOOLEAN ELSE {FALSE} :
        /\ (stage = "api_invalid") => ApiRejected(inp)
        /\ (stage = "ok") => ~ApiRejected(inp)
        /\ IF stage = "ok"
           THEN LET stopped == IF api_running
                               THEN stop_api_server_on(api_running, serving, bind)
                               ELSE [api_running |-> api_running, serving |-> serving,
                                     bind |-> bind]
                    after == IF inp.enabled
                             THEN start_api_server_on(stopped.api_running, inp.port,
                                                      stopped.serving, stopped.bind, refused)
                             ELSE stopped
                IN /\ api_port' = inp.port
                   /\ api_running' = after.api_running
                   /\ serving' = after.serving
                   /\ bind' = after.bind
           ELSE UNCHANGED server_vars
        \* self.rm.list_resources() needs a resource manager; so does open_resource
        /\ (stage = "invalid_selection") => rm = "open"
        /\ (stage \in Opened) => rm = "open"
        /\ IF stage \in {"invalid_selection", "list_error"}
           THEN UNCHANGED <<data, mode_vars>>
           ELSE /\ n1914a' = IF stage \in Opened THEN NewHandle(marker) ELSE Close(n1914a)
                /\ connection_string' = IF stage \in Saved THEN "res" ELSE connection_string
                /\ device_connected' = IF stage = "ok" THEN TRUE ELSE device_connected
                /\ simulation_mode' = IF stage = "ok" THEN FALSE ELSE simulation_mode
                /\ data' = IF stage = "ok" THEN data_clear(data) ELSE data
        /\ last_op' = [name |-> "apply_config", result |-> ConfigResult(stage),
                       was_sim |-> simulation_mode]
    /\ queries' = 0 /\ flipped' = FALSE /\ appended' = 0
    /\ UNCHANGED <<rm, monitoring, pc, armed, clock, timestamp, power, exited,
                   cycles>>
    /\ main_frame

apply_config == apply_config_on(ApiInputsKept)
apply_config_any == apply_config_on(ApiInputs)

\* ------------------------------------------------------------ API button
\* toggle_api_server: the "Start API Server" / "Stop API Server" button.
toggle_api_server ==
    /\ Quiet
    /\ pc = "idle" /\ ~exited
    /\ \E refused \in IF api_running THEN {FALSE} ELSE BOOLEAN :
        LET s == IF api_running
                 THEN stop_api_server_on(api_running, serving, bind)
                 ELSE start_api_server_on(api_running, api_port, serving, bind, refused)
        IN /\ api_running' = s.api_running
           /\ serving' = s.serving
           /\ bind' = s.bind
    /\ last_op' = [name |-> "toggle_api_server",
                   result |-> IF api_running THEN "stopped" ELSE "started",
                   was_sim |-> simulation_mode]
    /\ queries' = 0 /\ flipped' = FALSE /\ appended' = 0
    /\ UNCHANGED <<data, mode_vars, rm, monitoring, pc, armed, clock, timestamp, power,
                   exited, cycles, api_port>>
    /\ main_frame

\* start_api_server called on its own.
start_api_server ==
    /\ Quiet
    /\ pc = "idle" /\ ~exited
    /\ \E refused \in IF api_running THEN {FALSE} ELSE BOOLEAN :
        LET s == start_api_server_on(api_running, api_port, serving, bind, refused)
        IN /\ api_running' = s.api_running
           /\ serving' = s.serving
           /\ bind' = s.bind
    /\ last_op' = [name |-> "start_api_server",
                   result |-> IF api_running THEN "running" ELSE "started",
                   was_sim |-> simulation_mode]
    /\ queries' = 0 /\ flipped' = FALSE /\ appended' = 0
    /\ UNCHANGED <<data, mode_vars, rm, monitoring, pc, armed, clock, timestamp, power,
                   exited, cycles, api_port>>
    /\ main_frame

\* ------------------------------------------------------------ interval
\* if 100 <= new_freq <= 10000
IntervalValidAny(new_freq) == TRUE
IntervalValid(new_freq) == IntervalMin <= new_freq /\ new_freq <= IntervalMax

\* update_acquisition_frequency: the "Update" button next to the interval
\* entry.  new_freq / 1000.0 is stored, here in thousandths.
update_acquisition_frequency ==
    /\ Quiet
    /\ pc = "idle" /\ ~exited
    /\ \E inp \in IntervalInputs :
        /\ IF inp.int /\ IntervalValid(inp.value)
           THEN /\ acquisition_frequency_ms' = inp.value
                /\ update_frequency_Hz' = inp.value
           ELSE UNCHANGED <<acquisition_frequency_ms, update_frequency_Hz>>
        /\ last_op' = [name |-> "update_acquisition_frequency",
                       result |-> IF ~inp.int THEN "not_integer"
                                  ELSE IF inp.value < IntervalMin THEN "below"
                                  ELSE IF inp.value > IntervalMax THEN "above"
                                  ELSE "in_range",
                       was_sim |-> simulation_mode]
    /\ queries' = 0 /\ flipped' = FALSE /\ appended' = 0
    /\ UNCHANGED <<data, mode_vars, rm, monitoring, pc, armed, clock, timestamp, power,
                   exited, cycles, server_vars, response, api_vars, time_window_s>>

\* ------------------------------------------------------------ exit
\* A shutdown that returns into a main loop that keeps running.
root_quit_skipped(was_exited) == was_exited
\* self.root.quit(): mainloop returns once the current handler does.
root_quit(was_exited) == TRUE
\* cleanup_and_exit: the Exit button and WM_DELETE_WINDOW.  root.quit()
\* ends mainloop and with it the process: the daemon server threads end
\* when the interpreter does, which is with this step for ends = {TRUE}
\* and possibly some steps of the server thread later for BOOLEAN.
cleanup_and_exit_on(ends) ==
    /\ Quiet
    /\ pc = "idle" /\ ~exited
    /\ monitoring' = FALSE
    /\ api_running' = stop_api_server_on(api_running, serving, bind).api_running
    /\ \E ended \in ends :
        serving' = IF ended THEN {}
                   ELSE stop_api_server_on(api_running, serving, bind).serving
    /\ UNCHANGED <<api_port, bind>>
    /\ n1914a' = Close(n1914a)
    /\ rm' = IF rm = "open" THEN "closed" ELSE rm
    /\ exited' = root_quit(exited)
    /\ last_op' = [name |-> "cleanup_and_exit", result |-> "ok",
                   was_sim |-> simulation_mode]
    /\ queries' = 0 /\ flipped' = FALSE /\ appended' = 0
    /\ UNCHANGED <<data, device_connected, simulation_mode, connection_string, pc,
                   armed, clock, timestamp, power, cycles>>
    /\ main_frame

cleanup_and_exit == cleanup_and_exit_on({TRUE})
cleanup_and_exit_late == cleanup_and_exit_on(BOOLEAN)

\* The interpreter ends after mainloop returned: the daemon threads that
\* were still serving end with it.
process_exit ==
    /\ Quiet
    /\ exited /\ serving # {}
    /\ serving' = {}
    /\ UNCHANGED <<data, mode_vars, rm, monitoring, pc, armed, clock, timestamp, power,
                   exited, cycles, queries, flipped, appended, last_op,
                   api_running, api_port, bind>>
    /\ main_frame

\* ------------------------------------------------------------ metric
Abs(x) == IF x < 0 THEN -x ELSE x
RECURSIVE GCD(_, _)
GCD(a, b) == IF b = 0 THEN a ELSE GCD(b, a % b)
\* A vswr value: kind "finite" is (1 + sqrt(num/den)) / (1 - sqrt(num/den))
\* with num/den in lowest terms, so 1.0 is num = 0; kind "inf" is
\* float('inf').
VswrOne == [kind |-> "finite", num |-> 0, den |-> 1]
VswrInf == [kind |-> "inf", num |-> 0, den |-> 1]
\* ratio = a / f;  (1 + ratio**0.5) / (1 - ratio**0.5), for 0 <= a < f
VswrOfRatio(a, f) ==
    LET g == GCD(a, f) IN [kind |-> "finite", num |-> a \div g, den |-> f \div g]

\* get_current_power: the vswr of the newest reading.  The inner test is
\* "if ratio < 1" with ratio = reflected_power_abs / forward_power and
\* forward_power > 0.
vswr_current(forward_power, reflected_power) ==
    LET reflected_power_abs == Abs(reflected_power) IN
    IF forward_power > 0 /\ reflected_power_abs < forward_power
    THEN IF reflected_power_abs < forward_power
         THEN VswrOfRatio(reflected_power_abs, forward_power)
         ELSE VswrInf
    ELSE VswrOne

\* get_power_history: the vswr of one entry, computed as in
\* get_current_power but by the handler's own statements.
vswr_history_signed(fp, rp) ==
    IF fp > 0 /\ rp < fp
    THEN IF rp < fp THEN VswrOfRatio(Abs(rp), fp) ELSE VswrInf
    ELSE VswrOne
vswr_history(fp, rp) ==
    LET reflected_power_abs == Abs(rp) IN
    IF fp > 0 /\ reflected_power_abs < fp
    THEN IF reflected_power_abs < fp
         THEN VswrOfRatio(reflected_power_abs, fp)
         ELSE VswrInf
    ELSE VswrOne

\* One reading as the JSON object of a response.
Entry(ts, fp, rp, v) ==
    [timestamp |-> ts, forward_power |-> fp, reflected_power |-> rp, vswr |-> v]

\* ------------------------------------------------------------ API thread
\* A request is handled while a server thread of this process listens.
Serving == serving # {}
\* A handler leaves every field of the monitor alone.
api_frame ==
    UNCHANGED <<mode_vars, rm, monitoring, pc, armed, clock, timestamp, power,
                exited, cycles, queries, flipped, appended, last_op,
                display_vars, server_vars>>

\* GET /api/status
get_status ==
    /\ Quiet
    /\ Serving /\ api_pc = "idle"
    /\ response' = Resp("status", 200, 0,
                        <<[device_connected |-> device_connected,
                           simulation_mode |-> simulation_mode,
                           monitoring |-> monitoring,
                           acquisition_frequency_ms |-> acquisition_frequency_ms,
                           data_points |-> Len(data)]>>)
    /\ UNCHANGED <<data, api_vars>>
    /\ api_frame

\* GET /api/current, up to "if not self.data:" and the zeroed reading.
get_current_power_begin ==
    /\ Quiet
    /\ Serving /\ api_pc = "idle"
    /\ IF data = <<>>
       THEN /\ response' = Resp("current", 200, 0, <<Entry(clock, 0, 0, VswrOne)>>)
            /\ UNCHANGED api_pc
       ELSE /\ UNCHANGED response
            /\ api_pc' = "current"
    /\ UNCHANGED <<data, limit, limit_arg>>
    /\ api_frame

\* timestamp, forward_power, reflected_power = self.data[-1], and the rest
\* of the handler; an IndexError ends in Flask's 500 response.
get_current_power_read ==
    /\ Quiet
    /\ Serving /\ api_pc = "current"
    /\ response' = IF data = <<>>
                   THEN Resp("current", 500, 0, <<>>)
                   ELSE LET rd == Last(data) IN
                        Resp("current", 200, 0,
                             <<Entry(rd.t, rd.f, rd.r, vswr_current(rd.f, rd.r))>>)
    /\ api_pc' = "idle"
    /\ UNCHANGED <<data, limit, limit_arg>>
    /\ api_frame

Min(a, b) == IF a < b THEN a ELSE b
\* d[-k:] for k > 0
LastK(d, k) == IF k >= Len(d) THEN d ELSE SubSeq(d, Len(d) - k + 1, Len(d))
\* recent_data = self.data[-limit:] binds a local; self.data stays.
WindowAfterSliceTruncated(d, k) == LastK(d, k)
WindowAfterSlice(d, k) == d

\* GET /api/history, up to "if limit <= 0: return jsonify([])".
get_power_history_begin ==
    /\ Quiet
    /\ Serving /\ api_pc = "idle"
    /\ \E n \in Limits :
        LET l == Min(n, Len(data)) IN
        IF l <= 0
        THEN /\ response' = Resp("history", 200, n, <<>>)
             /\ UNCHANGED api_vars
        ELSE /\ UNCHANGED response
             /\ api_pc' = "history"
             /\ limit' = l
             /\ limit_arg' = n
    /\ UNCHANGED data
    /\ api_frame

\* recent_data = self.data[-limit:], and the rest of the handler.
get_power_history_slice ==
    /\ Quiet
    /\ Serving /\ api_pc = "history"
    /\ LET recent_data == LastK(data, limit) IN
       response' = Resp("history", 200, limit_arg,
                        [i \in 1..Len(recent_data) |->
                            Entry(recent_data[i].t, recent_data[i].f, recent_data[i].r,
                                  vswr_history(recent_data[i].f, recent_data[i].r))])
    /\ data' = WindowAfterSlice(data, limit)
    /\ api_pc' = "idle"
    /\ limit' = 0
    /\ limit_arg' = 0
    /\ api_frame

\* GET /api/devices: lists and probes the bus through self.rm; every
\* exception ends in the 500 response.
list_devices ==
    /\ Quiet
    /\ Serving /\ api_pc = "idle"
    /\ \E listed \in BOOLEAN :
        response' = IF rm # "open" \/ ~listed
                    THEN Resp("devices", 500, 0, <<>>)
                    ELSE Resp("devices", 200, 0, <<>>)
    /\ UNCHANGED <<data, api_vars>>
    /\ api_frame

\* The handler's return: Flask sends the response.  The send touches no
\* field of the monitor, so it is taken before any other step.
send_response ==
    /\ ~Quiet
    /\ response' = NoResponse
    /\ UNCHANGED <<data, api_vars>>
    /\ api_frame

\* ------------------------------------------------------------ specifications
\* The acquisition side.
Next ==
    \/ update_data_begin
    \/ update_data_flip
    \/ update_data_append
    \/ update_data_prune
    \/ update_data_finish
    \/ toggle_simulation_mode
    \/ apply_config
    \/ cleanup_and_exit
    \/ list_devices
    \/ send_response

Spec == Init /\ [][Next]_vars

\* The acquisition side and every request.
NextApi ==
    \/ Next
    \/ get_status
    \/ get_current_power_begin
    \/ get_current_power_read
    \/ get_power_history_begin
    \/ get_power_history_slice

SpecApi == InitApi /\ [][NextApi]_vars

\* The sampling cycle, the mode toggle and every request.
NextRequests ==
    \/ update_data_begin
    \/ update_data_flip
    \/ update_data_append
    \/ update_data_prune
    \/ update_data_finish
    \/ toggle_simulation_mode
    \/ get_status
    \/ get_current_power_begin
    \/ get_current_power_read
    \/ get_power_history_begin
    \/ get_power_history_slice
    \/ list_devices
    \/ send_response

SpecRequests == InitApi /\ [][NextRequests]_vars

\* The life cycle of the server.
NextServer ==
    \/ toggle_api_server
    \/ start_api_server
    \/ apply_config_any
    \/ update_acquisition_frequency
    \/ cleanup_and_exit_late
    \/ process_exit
    \/ get_status
    \/ list_devices
    \/ send_response

SpecServer == InitServer /\ [][NextServer]_vars

\* The window after one cycle that read the pair (f, r) from the instrument.
InitMetric ==
    \E f \in -1..MaxPower, r \in -MaxPower..MaxPower :
        /\ data = <<Reading(0, Real(<<f, r>>))>>
        /\ rm = "open"
        /\ n1914a = NewHandle(TRUE)
        /\ connection_string = "res"
        /\ device_connected = TRUE
        /\ simulation_mode = FALSE
        /\ monitoring = TRUE
        /\ pc = "idle"
        /\ armed = TRUE
        /\ clock = 0
        /\ timestamp = 0
        /\ power = Real(<<f, r>>)
        /\ exited = FALSE
        /\ cycles = 1
        /\ queries = 2
        /\ flipped = FALSE
        /\ appended = 1
        /\ last_op = [name |-> "update_data", result |-> "ok", was_sim |-> FALSE]
        /\ response = NoResponse
        /\ acquisition_frequency_ms = DefaultIntervalMs
        /\ update_frequency_Hz = DefaultIntervalMs
        /\ time_window_s = Horizon
        /\ api_running = TRUE
        /\ api_port = DefaultPort
        /\ serving = {DefaultPort}
        /\ bind = [port |-> DefaultPort, result |-> "ok"]
        /\ api_pc = "idle"
        /\ limit = 0
        /\ limit_arg = 0

NextMetric ==
    \/ get_current_power_begin
    \/ get_current_power_read
    \/ get_power_history_begin
    \/ get_power_history_slice
    \/ send_response

SpecMetric == InitMetric /\ [][NextMetric]_vars

\* ------------------------------------------------------------ properties
Times(d) == [i \in 1..Len(d) |-> d[i].t]
Explicit == {"toggle_simulation_mode", "apply_config"}
\* The main thread is back in the event loop after a whole update_data call.
CycleDone == pc = "idle" /\ last_op.name = "update_data"
\* The cycle's real read failed: update_data took its "power is None" branch.
FailedRead == last_op.name = "update_data" /\ ~last_op.was_sim /\ flipped

\* C1: right after the automatic Connected -> Simulated transition of a
\* sampling cycle, before the cycle's synthetic reading is appended, the
\* Window is empty.
C1_ClearedOnAutoTransition == (pc = "append" /\ FailedRead) => data = <<>>

\* C2: a cycle started in Connected mode whose read failed still ends, with
\* exactly one reading appended, that reading synthetic and the newest of the
\* Window, and the mode Simulated.
C2_FailedReadStillAppends ==
    (CycleDone /\ FailedRead) =>
        /\ simulation_mode
        /\ appended = 1
        /\ data # <<>>
        /\ Last(data).src = "synthetic"
        /\ Last(data).t = timestamp
C2_Witness ==
    /\ CycleDone /\ FailedRead /\ queries = 2
    /\ Len(data) = 2 /\ data[1].src = "real"

\* C3: when a reconnect toggle or a device configuration has taken the mode
\* from Simulated to Connected, the controller holds an open instrument whose
\* identity contains the marker N1914A.
C3_ConnectedOnlyWithMarker ==
    (last_op.name \in Explicit /\ last_op.was_sim /\ ~simulation_mode) =>
        (n1914a.ref /\ n1914a.open /\ n1914a.marker)

\* C4: at the end of a toggle that switched the mode, and at the end of a
\* device configuration that switched to Connected, the Window is empty.
C4_ExplicitChangeClears ==
    /\ (last_op.name = "toggle_simulation_mode" /\ last_op.was_sim # simulation_mode)
            => data = <<>>
    /\ (last_op.name = "apply_config" /\ last_op.result = "ok")
            => (data = <<>> /\ ~simulation_mode)
C4_Witness ==
    /\ last_op.name = "toggle_simulation_mode" /\ ~last_op.was_sim /\ simulation_mode
    /\ cycles >= 2 /\ data = <<>>

\* C5: after a device configuration that failed (its except clause ran) in
\* Connected mode, the mode is Simulated.
C5_FailedConfigFallsBack ==
    (last_op.name = "apply_config" /\ last_op.result = "fail" /\ ~last_op.was_sim)
        => simulation_mode

\* A cycle started in Simulated mode: no channel query, no failed-read
\* branch, mode still Simulated.
SimulatedCycle ==
    (last_op.name = "update_data" /\ last_op.was_sim) =>
        (simulation_mode /\ queries = 0 /\ ~flipped)
\* C6: a sampling cycle started in Simulated mode issues no channel query
\* and leaves the mode Simulated; the mode leaves Simulated only in a step
\* of the reconnect toggle or of a device configuration.
C6_SimulatedCycleStaysSimulated ==
    /\ []SimulatedCycle
    /\ [][(simulation_mode /\ ~simulation_mode') => last_op'.name \in Explicit]_vars
C6_Witness ==
    /\ CycleDone /\ last_op.was_sim /\ n1914a.ref /\ n1914a.open
    /\ cycles >= 2 /\ Len(data) >= 2

\* C7: without a resource manager the mode is Simulated in every state,
\* whatever cycles, toggles, configurations and requests have run.
C7_NoLibraryStaysSimulated == (rm = "none") => simulation_mode
C7_Witness ==
    /\ rm = "none" /\ last_op.name \in Explicit /\ cycles >= 1
    /\ response.route = "devices" /\ response.status = 500

\* After a completed cycle the newest reading is the cycle's and every
\* reading is within the horizon of it.
WithinHorizon ==
    CycleDone =>
        /\ data # <<>>
        /\ Last(data).t = timestamp
        /\ \A i \in 1..Len(data) : data[i].t >= Last(data).t - Horizon
\* The prune step of the cycle at t=70 on the Window of t=0, t=30, t=70.
Scenario ==
    (pc = "prune" /\ pc' = "gui" /\ Times(data) = <<0, 30, 70>>)
        => Times(data') = <<30, 70>>
\* C8: after a completed cycle every reading is within the horizon of the
\* newest one, which is the cycle's; and the prune of the cycle at t=70 takes
\* the Window of t=0, t=30, t=70 to exactly t=30, t=70.
C8_WithinHorizon == []WithinHorizon /\ [][Scenario]_vars
C8_Witness ==
    CycleDone /\ cycles = 3 /\ appended = 1 /\ clock = 70 /\ Times(data) = <<30, 70>>

\* C9: the Window is in ascending timestamp order in every state.
C9_Ascending == \A i, j \in 1..Len(data) : i < j => data[i].t <= data[j].t
C9_Witness ==
    /\ Len(data) = 3 /\ data[1].t < data[2].t /\ data[2].t < data[3].t
    /\ data[1].src # data[3].src

\* C10 as stated: once the Window holds a reading it is never empty again.
C10_NeverEmptyAgain == [][data # <<>> => data' # <<>>]_vars
\* C10 amended: the prune of a cycle keeps the reading that cycle appended,
\* and a non-empty Window becomes empty only by a mode toggle that switches
\* the mode or by a successful device configuration.
C10_OnlyExplicitClearEmpties ==
    /\ [][(pc = "prune" /\ pc' = "gui") =>
            (data' # <<>> /\ Last(data') = Last(data))]_vars
    /\ [][(data # <<>> /\ data' = <<>>) =>
            (last_op'.name \in Explicit /\ last_op'.result = "ok")]_vars
C10_Witness ==
    /\ CycleDone /\ cycles = 2 /\ Len(data) = 1 /\ data[1].t = 70

\* The readings of a response body, without the vswr.
Readings(body) ==
    [i \in 1..Len(body) |->
        <<body[i].timestamp, body[i].forward_power, body[i].reflected_power>>]
Tuples(d) == [i \in 1..Len(d) |-> <<d[i].t, d[i].f, d[i].r>>]

\* C11: no response shows the appended-but-not-yet-pruned Window: a history
\* response holds no reading older than the horizon before its newest one,
\* and a status response handled between a cycle's append and its prune
\* counts the Window as before the append or as after the prune.
C11_SnapshotReads ==
    /\ (response.route = "history" /\ response.body # <<>>) =>
            \A i \in 1..Len(response.body) :
                response.body[i].timestamp >= Last(response.body).timestamp - Horizon
    /\ (response.route = "status" /\ pc = "prune") =>
            response.body[1].data_points \in {Len(data) - 1, Len(Prune(data, timestamp))}

\* C12: every /api/current response is a 200: the zeroed reading when the
\* Window is empty, else the newest reading of the Window.
C12_CurrentNeverFails ==
    (response.route = "current") =>
        /\ response.status = 200
        /\ Len(response.body) = 1
        /\ IF data = <<>>
           THEN /\ response.body[1].forward_power = 0
                /\ response.body[1].reflected_power = 0
                /\ response.body[1].vswr = VswrOne
           ELSE Readings(response.body) = <<Tuples(data)[Len(data)]>>

\* A response that carries readings.
Reported == response.route \in {"current", "history"} /\ response.status = 200
\* C13: every reported vswr is 1.0 when forward <= 0, and +Infinity when
\* forward > 0 and |reflected| / forward >= 1.
C13_VswrBoundaries ==
    Reported =>
        \A i \in 1..Len(response.body) :
            LET e == response.body[i] IN
            /\ (e.forward_power <= 0) => e.vswr = VswrOne
            /\ (e.forward_power > 0 /\ Abs(e.reflected_power) >= e.forward_power)
                    => e.vswr = VswrInf

\* C14: the vswr of every entry of a history response is the one
\* get_current_power computes for that reading, and the vswr of a current
\* response is the one get_power_history computes for it.
C14_SameVswr ==
    /\ (response.route = "history") =>
            \A i \in 1..Len(response.body) :
                LET e == response.body[i] IN
                e.vswr = vswr_current(e.forward_power, e.reflected_power)
    /\ (response.route = "current" /\ response.status = 200) =>
            LET e == response.body[1] IN
            e.vswr = vswr_history(e.forward_power, e.reflected_power)
C14_Witness ==
    /\ response.route = "history" /\ Len(response.body) = 1
    /\ response.body[1].reflected_power < 0
    /\ response.body[1].vswr = VswrOfRatio(2, 3)

\* C15: a history response to limit=N is the last min(N, Len(Window))
\* readings of the Window in Window order, and empty for N <= 0.
C15_HistoryLimit ==
    (response.route = "history") =>
        LET k == Min(response.arg, Len(data)) IN
        Readings(response.body) =
            IF k <= 0 THEN <<>> ELSE SubSeq(Tuples(data), Len(data) - k + 1, Len(data))

\* C16: after the button stopped a running server no thread of it listens
\* any more, and never more than one server thread is alive.
C16_StopReleasesPort ==
    /\ (last_op.name = "toggle_api_server" /\ last_op.result = "stopped") => serving = {}
    /\ Cardinality(serving) <= 1

\* C17: after a start whose bind failed the server is not marked running.
C17_BindFailureNotRunning ==
    (/\ last_op.name \in {"toggle_api_server", "start_api_server"}
     /\ last_op.result = "started"
     /\ bind.result = "fail") => ~api_running

\* C18: every port a server thread tried to bind lies in [1024, 65535].
C18_BoundPortInRange ==
    (bind.result # "none") => (PortMin <= bind.port /\ bind.port <= PortMax)

\* C19: a step of start_api_server taken while the server runs creates no
\* thread and leaves api_running as it is.
C19_StartWhileRunningIsNoOp ==
    [][(api_running /\ last_op'.name = "start_api_server")
            => UNCHANGED <<api_running, serving, bind>>]_vars
C19_Witness ==
    /\ last_op.name = "start_api_server" /\ last_op.result = "running"
    /\ api_running /\ serving = {DefaultPort} /\ bind.result = "ok"

\* A step of a request handler, or the send of its response.
ApiStep == api_pc' # api_pc \/ response' # response
\* C20: no step of a request handler changes the Window, simulation_mode,
\* device_connected, monitoring, the acquisition interval or the
\* controller's instrument handle.
C20_RequestsLeaveAcquisitionState ==
    [][ApiStep => UNCHANGED <<data, simulation_mode, device_connected, monitoring,
                              acquisition_frequency_ms, n1914a>>]_vars
C20_Witness ==
    /\ response.route = "history" /\ Len(response.body) = 2 /\ Len(data) = 3
    /\ ~simulation_mode /\ device_connected /\ n1914a.open

\* A step after which the last handler run is an interval request that
\* named no integer of [100, 10000].
IntervalRejected ==
    last_op'.name = "update_acquisition_frequency" /\ last_op'.result # "in_range"
\* C21: an interval request whose value is outside [100, 10000] or is no
\* integer changes neither the acquisition interval nor the stored
\* update_frequency_Hz.
C21_InvalidIntervalRejected ==
    [][IntervalRejected => UNCHANGED <<acquisition_frequency_ms, update_frequency_Hz>>]_vars
C21_Witness ==
    /\ last_op.name = "update_acquisition_frequency" /\ last_op.result = "above"
    /\ acquisition_frequency_ms = IntervalMin /\ update_frequency_Hz = IntervalMin

\* C22: the acquisition interval lies in [100, 10000] ms in every state,
\* the initial one included.
C22_IntervalInRange ==
    IntervalMin <= acquisition_frequency_ms /\ acquisition_frequency_ms <= IntervalMax

\* C23: while monitoring is true and the main loop runs, a sampling cycle
\* that has ended has armed the next one, whether or not its GUI update
\* raised.
C23_EveryCycleArmsTheNext == (pc = "idle" /\ monitoring /\ ~exited) => armed

\* A step of the reconnect toggle that succeeded: self.n1914a now is the
\* handle connect_to_device opened in this step.
ReconnectStep ==
    /\ last_op' # last_op
    /\ last_op'.name = "toggle_simulation_mode"
    /\ last_op'.was_sim /\ last_op'.result = "ok"
\* C24: when a reconnect makes the controller hold a newly opened handle,
\* the handle it held before is closed; connect_to_device itself closes
\* nothing it replaces, so that handle was closed before the step.
C24_NoHandleLeaked == [][ReconnectStep => ~(n1914a.ref /\ n1914a.open)]_vars

\* C25: no request handler uses the resource manager after shutdown closed
\* it: by then the API server no longer serves.
C25_NoUseAfterClose == ~(rm = "closed" /\ response.route = "devices")

\* C26: once the scheduler is stopped (monitoring is false), the stopping
\* step included, no step changes the Window and no step arms a callback; a
\* callback that was armed before never samples.
C26_StopLeavesWindow == [][~monitoring' => (data' = data /\ (armed' => armed) /\ cycles' = cycles)]_vars
C26_Witness == ~monitoring /\ exited /\ armed /\ Len(data) >= 2 /\ last_op.name = "cleanup_and_exit"

\* The acquisition side, started from a configuration file whose
\* display.time_window_s need not be the default.
SpecWindow == InitWindow /\ [][Next]_vars
\* C27: the pruning step keeps exactly the readings that are at most the
\* configured display.time_window_s older than the one just appended.
C27_PruneUsesConfiguredWindow ==
    [][(pc = "prune" /\ pc' = "gui")
        => data' = SelectSeq(data, LAMBDA rd : rd.t >= timestamp - time_window_s)]_vars

\* C28: every /api/status response reports exactly one of device_connected
\* and simulation_mode as true.
C28_StatusExactlyOneMode ==
    response.route = "status"
        => (response.body[1].device_connected # response.body[1].simulation_mode)

\* A step of the reconnect toggle whose connection attempt failed.
ReconnectFailedStep ==
    /\ last_op' # last_op
    /\ last_op'.name = "toggle_simulation_mode"
    /\ last_op'.was_sim /\ last_op'.result # "ok"
\* C29: a failed reconnect leaves the mode Simulated, device_connected
\* false and the Window as it was, and the controller holds no open handle.
C29_FailedReconnectHoldsNoHandle ==
    [][ReconnectFailedStep
        => /\ simulation_mode' /\ ~device_connected'
           /\ data' = data
           /\ ~(n1914a'.ref /\ n1914a'.open)]_vars
====
